---- MODULE Spec2Model ----
(***************************************************************************)
(* Model of nocke/scan, _scan.js: a command line scan tool.  Strings are   *)
(* sequences of one-character strings, so that the string conversions of   *)
(* the program (lower-casing, trimming, the two regular expressions, the   *)
(* path functions of node, the default name) are computed, not assumed.    *)
(***************************************************************************)
EXTENDS Integers, Sequences, FiniteSets, TLC

(***************************************************************************)
(* Strings                                                                 *)
(***************************************************************************)
UpperToLower ==
  ("A" :> "a") @@ ("B" :> "b") @@ ("C" :> "c") @@ ("D" :> "d") @@ ("E" :> "e") @@
  ("F" :> "f") @@ ("G" :> "g") @@ ("H" :> "h") @@ ("I" :> "i") @@ ("J" :> "j") @@
  ("K" :> "k") @@ ("L" :> "l") @@ ("M" :> "m") @@ ("N" :> "n") @@ ("O" :> "o") @@
  ("P" :> "p") @@ ("Q" :> "q") @@ ("R" :> "r") @@ ("S" :> "s") @@ ("T" :> "t") @@
  ("U" :> "u") @@ ("V" :> "v") @@ ("W" :> "w") @@ ("X" :> "x") @@ ("Y" :> "y") @@
  ("Z" :> "z")

Digits == {"0", "1", "2", "3", "4", "5", "6", "7", "8", "9"}

\* \s of the regular expressions and of String.prototype.trim
WhiteSpace == {" ", "\t", "\n", "\r", "\f"}

SetMax(S) == CHOOSE m \in S : \A x \in S : x <= m

SetMin(S) == CHOOSE m \in S : \A x \in S : m <= x

LowerChar(c) == IF c \in DOMAIN UpperToLower THEN UpperToLower[c] ELSE c

toLowerCase(s) == [i \in 1..Len(s) |-> LowerChar(s[i])]

trim(s) ==
  LET keep == {i \in 1..Len(s) : s[i] \notin WhiteSpace}
  IN  IF keep = {} THEN << >> ELSE SubSeq(s, SetMin(keep), SetMax(keep))

endsWith(s, suffix) ==
  /\ Len(suffix) <= Len(s)
  /\ SubSeq(s, Len(s) - Len(suffix) + 1, Len(s)) = suffix

startsWith(s, prefix) ==
  /\ Len(prefix) <= Len(s)
  /\ SubSeq(s, 1, Len(prefix)) = prefix

\* s.slice(0, -n)
sliceOff(s, n) == SubSeq(s, 1, Len(s) - n)

\* s.slice(n) for a 0-based n
sliceFrom(s, n) == SubSeq(s, n + 1, Len(s))

RECURSIVE joinWith(_, _)
\* Array.prototype.join(sep)
joinWith(parts, sep) ==
  IF Len(parts) = 0 THEN << >>
  ELSE IF Len(parts) = 1 THEN parts[1]
  ELSE parts[1] \o sep \o joinWith(Tail(parts), sep)

RECURSIVE split(_, _)
\* String.prototype.split(c) for a one-character separator
split(s, c) ==
  LET at == {i \in 1..Len(s) : s[i] = c}
  IN  IF at = {} THEN << s >>
      ELSE << SubSeq(s, 1, SetMin(at) - 1) >> \o split(sliceFrom(s, SetMin(at)), c)

\* String(index).padStart(2, '0')
pad2(n) ==
  LET d == [k \in 0..9 |-> CASE k = 0 -> "0" [] k = 1 -> "1" [] k = 2 -> "2"
                             [] k = 3 -> "3" [] k = 4 -> "4" [] k = 5 -> "5"
                             [] k = 6 -> "6" [] k = 7 -> "7" [] k = 8 -> "8"
                             [] OTHER -> "9"]
  IN  IF n < 10 THEN << "0", d[n] >>
      ELSE IF n < 100 THEN << d[n \div 10], d[n % 10] >>
      ELSE << d[n \div 100], d[(n \div 10) % 10], d[n % 10] >>

RECURSIVE parseInt(_)
\* parseInt(arg, 10) of a string of decimal digits
parseInt(s) ==
  IF Len(s) = 0 THEN 0
  ELSE LET v == CHOOSE k \in 0..9 : pad2(k)[2] = s[Len(s)]
       IN  10 * parseInt(sliceOff(s, 1)) + v

(***************************************************************************)
(* node's posix path module                                                *)
(***************************************************************************)
isAbsolute(p) == Len(p) > 0 /\ p[1] = "/"

\* the path with its trailing slashes removed (all of it if it is only slashes)
stripTrailingSlashes(p) ==
  LET keep == {i \in 1..Len(p) : p[i] # "/"}
  IN  IF keep = {} THEN << >> ELSE SubSeq(p, 1, SetMax(keep))

pathDirname(p) ==
  IF Len(p) = 0 THEN << "." >>
  ELSE LET ends == {i \in 2..Len(p) : p[i] = "/" /\ \E j \in (i + 1)..Len(p) : p[j] # "/"}
       IN  IF ends = {} THEN (IF isAbsolute(p) THEN << "/" >> ELSE << "." >>)
           ELSE IF isAbsolute(p) /\ SetMax(ends) = 2 THEN << "/", "/" >>
           ELSE SubSeq(p, 1, SetMax(ends) - 1)

\* path.basename(p)
basename1(p) ==
  LET q == stripTrailingSlashes(p)
      slashes == {i \in 1..Len(q) : q[i] = "/"}
  IN  IF slashes = {} THEN q ELSE sliceFrom(q, SetMax(slashes))

\* path.basename(p, suffix)
pathBasename(p, suffix) ==
  IF Len(suffix) = 0 \/ Len(suffix) > Len(p) THEN basename1(p)
  ELSE IF suffix = p THEN << >>
  ELSE LET b == basename1(p)
       IN  IF endsWith(b, suffix) /\ b # suffix THEN sliceOff(b, Len(suffix)) ELSE b

pathExtname(p) ==
  LET b == basename1(p)
      dots == {i \in 1..Len(b) : b[i] = "."}
  IN  IF dots = {} \/ SetMax(dots) = 1 \/ b = << ".", "." >> THEN << >>
      ELSE sliceFrom(b, SetMax(dots) - 1)

RECURSIVE normalizeString(_, _, _)
\* the segment walk of path.normalize: drops '' and '.', resolves '..'
normalizeString(segs, acc, allowAboveRoot) ==
  IF Len(segs) = 0 THEN acc
  ELSE LET s == Head(segs)
       IN  IF s = << >> \/ s = << "." >> THEN normalizeString(Tail(segs), acc, allowAboveRoot)
           ELSE IF s = << ".", "." >>
             THEN IF Len(acc) > 0 /\ acc[Len(acc)] # << ".", "." >>
                    THEN normalizeString(Tail(segs), sliceOff(acc, 1), allowAboveRoot)
                  ELSE IF allowAboveRoot
                    THEN normalizeString(Tail(segs), Append(acc, s), allowAboveRoot)
                  ELSE normalizeString(Tail(segs), acc, allowAboveRoot)
           ELSE normalizeString(Tail(segs), Append(acc, s), allowAboveRoot)

normalize(p) ==
  IF Len(p) = 0 THEN << "." >>
  ELSE LET abs == isAbsolute(p)
           trailing == p[Len(p)] = "/"
           body == joinWith(normalizeString(split(p, "/"), << >>, ~abs), << "/" >>)
           body2 == IF Len(body) = 0
                      THEN (IF abs THEN << >> ELSE IF trailing THEN << ".", "/" >> ELSE << "." >>)
                    ELSE IF trailing THEN body \o << "/" >> ELSE body
       IN  IF abs THEN << "/" >> \o body2 ELSE body2

\* path.join(a, b)
pathJoin(a, b) ==
  LET parts == SelectSeq(<< a, b >>, LAMBDA x : Len(x) > 0)
  IN  IF Len(parts) = 0 THEN << "." >> ELSE normalize(joinWith(parts, << "/" >>))

(***************************************************************************)
(* Words and paths of the model                                            *)
(***************************************************************************)
w_close == << "c", "l", "o", "s", "e" >>

w_fake == << "f", "a", "k", "e" >>

w_all == << "a", "l", "l" >>

w_pdf == << "p", "d", "f" >>

w_jpg == << "j", "p", "g" >>

w_png == << "p", "n", "g" >>

w_help == << "-", "-", "h", "e", "l", "p" >>

w_h == << "-", "h" >>

knownExtensions == {w_pdf, w_jpg, w_png}

magicWords == {w_close, w_fake, w_all, w_jpg, w_png}

\* process.env.HOME
homeDir == << "/", "h" >>

\* the directory of _scan.js
scriptDir == << "/", "s" >>

\* some other directory
workDir == << "/", "w" >>

picturesScan == pathJoin(pathJoin(homeDir, << "P", "i", "c", "t", "u", "r", "e", "s" >>), << "s", "c", "a", "n" >>)

\* new Date().toISOString().split('T')[0]
Today == << "2", "0", "2", "4", "-", "1", "0", "-", "1", "6" >>

\* a limit that is one byte lower
MinSizeBelow == 10 * 1024 - 1

\* fs.statSync(...).size < 10 * 1024
MinSize == 10 * 1024

\* exitCode of a process that has not exited
Running == -1

(***************************************************************************)
(* The two grammars                                                        *)
(***************************************************************************)
\* the backtick character (which the TLA+ lexer does not take in a string)
backtick == "<backtick>"

\* the characters that the character classes of both expressions exclude
BadChars == {"<", ">", ":", "\"", "'", backtick, "/", "\\", "|", "?", "*"}

\* the character class of both expressions: no BadChars, no white space
NameChar(c) == c \notin BadChars /\ c \notin WhiteSpace

\* a second class that is the first one
NameCharAlsoDot(c) == NameChar(c)

\* the same class without the dot (second class of validFilename)
NameCharNoDot(c) == NameChar(c) /\ c # "."

RECURSIVE matchGroups(_, _)
\* the groups of validFilename, from position i of s to its end: a space
\* or a dot, then one or more characters of the class without the dot
matchGroups(s, i) ==
  \/ i > Len(s)
  \/ /\ s[i] \in {" ", "."}
     /\ \E j \in (i + 1)..Len(s) :
          /\ \A k \in (i + 1)..j : NameCharNoDot(s[k])
          /\ matchGroups(s, j + 1)

\* validFilename.test(s): one or more name characters, then the groups
validFilename(s) ==
  \E j \in 1..Len(s) :
    /\ \A k \in 1..j : NameChar(s[k])
    /\ matchGroups(s, j + 1)

\* words of name characters separated by single spaces
isWords(seg) ==
  LET ws == split(seg, " ")
  IN  \A i \in 1..Len(ws) : Len(ws[i]) > 0 /\ \A k \in 1..Len(ws[i]) : NameChar(ws[i][k])

\* optional words, then any number of a slash and optional words
segmentsOK(rest) ==
  LET segs == split(rest, "/")
  IN  \A i \in 1..Len(segs) : segs[i] = << >> \/ isWords(segs[i])

\* validFilePath.test(s); the leading group is an optional / or ./ or ../
validFilePath(s) ==
  \E pre \in {<< >>, << "/" >>, << ".", "/" >>, << ".", ".", "/" >>} :
    /\ startsWith(s, pre)
    /\ segmentsOK(sliceFrom(s, Len(pre)))

(***************************************************************************)
(* State                                                                   *)
(***************************************************************************)
VARIABLES
  argv,            \* process.argv.slice(2)
  currentDir,      \* process.cwd()
  dirs,            \* the directories that exist (absolute paths)
  files,           \* the files that exist: absolute path -> size
  files0,          \* the files that existed when the process started
  pc,              \* position of scanToFile
  exitCode,        \* Running, or the exit code of the process
  openFlag, FAKEMODE, multiPage, numOfPages, outputFormat, args,
  dir, basename, ext, promptingNeeded, filePath,
  scanState,       \* position of scanAndConvert / state of scanPromise
  promptState,     \* state of promptPromise
  finalFilePath,   \* value of promptPromise
  stdout,          \* what kdialog printed
  log              \* the calls made so far, in order

env == << argv, currentDir, dirs, files0 >>

intent == << openFlag, FAKEMODE, multiPage, numOfPages, outputFormat, args >>

dest == << dir, basename, ext, promptingNeeded, filePath >>

tasks == << scanState, promptState, finalFilePath, stdout >>

vars == << env, files, pc, exitCode, intent, dest, tasks, log >>

(***************************************************************************)
(* File system                                                             *)
(***************************************************************************)
\* the absolute path a path names in a process whose working directory is cwd
resolvePath(p, cwd) ==
  stripTrailingSlashes(normalize(IF isAbsolute(p) THEN p ELSE cwd \o << "/" >> \o p))

\* fs.lstatSync(p).isDirectory(), for a p that exists
isDirectory(p) == resolvePath(p, currentDir) \in dirs

isFile(fs, p) == resolvePath(p, currentDir) \in DOMAIN fs

\* fs.existsSync(p) when the files are fs
existsIn(fs, p) == isDirectory(p) \/ isFile(fs, p)

existsSync(p) == existsIn(files, p)

\* fs.statSync(p).size
statSize(fs, p) == fs[resolvePath(p, currentDir)]

\* the files after a file of this size has been written at p
writeFile(fs, p, size) ==
  LET r == resolvePath(p, currentDir)
  IN  [q \in DOMAIN fs \cup {r} |-> IF q = r THEN size ELSE fs[q]]

\* a removal that removes nothing
removeNothing(fs, p) == fs

\* the files after rm -f p
removeFile(fs, p) ==
  [q \in DOMAIN fs \ {resolvePath(p, currentDir)} |-> fs[q]]

\* a file can be created at p: its directory exists and p is no directory
canCreate(p) == isDirectory(pathDirname(p)) /\ ~isDirectory(p)

\* fs.renameSync(from, to) does not throw
canRename(fs, from, to) == isFile(fs, from) /\ canCreate(to)

\* the files after fs.renameSync(from, to)
renameFile(fs, from, to) ==
  IF resolvePath(from, currentDir) = resolvePath(to, currentDir) THEN fs
  ELSE removeFile(writeFile(fs, to, statSize(fs, from)), from)

(***************************************************************************)
(* scanToFile: the magic words                                             *)
(***************************************************************************)
\* /^\d{1,3}$/.test(arg)
isPageCount(arg) == Len(arg) \in 1..3 /\ \A i \in 1..Len(arg) : arg[i] \in Digits

\* the effect of one magic word on the options
applyMagicWord(st, arg) ==
  IF arg = w_close THEN [st EXCEPT !.openFlag = FALSE]
  ELSE IF arg = w_fake THEN [st EXCEPT !.FAKEMODE = TRUE]
  ELSE IF arg = w_all THEN [st EXCEPT !.numOfPages = 0, !.multiPage = TRUE]
  ELSE IF arg = w_jpg \/ arg = w_png THEN [st EXCEPT !.outputFormat = arg]
  ELSE st

RECURSIVE processMagicWordsAnywhere(_)
\* a loop that passes over a token that is no magic word and goes on
processMagicWordsAnywhere(st) ==
  IF Len(st.args) = 0 THEN st
  ELSE LET arg == toLowerCase(st.args[1])
           rest == [st EXCEPT !.args = Tail(st.args)]
       IN  IF arg \in magicWords
             THEN processMagicWordsAnywhere(applyMagicWord(rest, arg))
           ELSE IF isPageCount(arg)
             THEN processMagicWordsAnywhere([rest EXCEPT !.numOfPages = parseInt(arg),
                                                        !.multiPage = TRUE])
           ELSE LET after == processMagicWordsAnywhere(rest)
                IN  [after EXCEPT !.args = << st.args[1] >> \o after.args]

RECURSIVE processMagicWords(_)
\* the loop: while (args.length > 0) { ... args.shift() ... break }
processMagicWords(st) ==
  IF Len(st.args) = 0 THEN st
  ELSE LET arg == toLowerCase(st.args[1])
       IN  IF arg \in magicWords
             THEN processMagicWords([applyMagicWord(st, arg) EXCEPT !.args = Tail(st.args)])
           ELSE IF isPageCount(arg)
             THEN processMagicWords([st EXCEPT !.numOfPages = parseInt(arg),
                                               !.multiPage = TRUE,
                                               !.args = Tail(st.args)])
           ELSE st

\* args.includes('--help') || args.includes('-h')
wantsHelp(a) == \E i \in 1..Len(a) : a[i] = w_help \/ a[i] = w_h

(***************************************************************************)
(* getDestination                                                          *)
(***************************************************************************)
avoidScriptAndHomeDir(d) ==
  IF d = scriptDir \/ d = homeDir THEN picturesScan ELSE d

\* s.replace('.', ''): the first dot removed
removeFirstDot(s) ==
  LET dots == {i \in 1..Len(s) : s[i] = "."}
  IN  IF dots = {} THEN s
      ELSE SubSeq(s, 1, SetMin(dots) - 1) \o sliceFrom(s, SetMin(dots))

\* getDestination without its two checks
getDestinationUnchecked(a) ==
  LET rawPath == trim(joinWith(a, << " " >>))
      ext0 == toLowerCase(removeFirstDot(pathExtname(rawPath)))
      possibleExt == IF ext0 \in knownExtensions THEN ext0 ELSE << >>
  IN  IF rawPath = << >>
        THEN [exit |-> "", dir |-> avoidScriptAndHomeDir(currentDir), basename |-> << >>, ext |-> << >>]
      ELSE IF existsSync(rawPath) /\ isDirectory(rawPath)
        THEN [exit |-> "", dir |-> rawPath, basename |-> << >>, ext |-> << >>]
      ELSE [exit |-> "", dir |-> avoidScriptAndHomeDir(pathDirname(rawPath)),
            basename |-> pathBasename(rawPath, IF possibleExt = << >> THEN << >>
                                               ELSE << "." >> \o possibleExt),
            ext |-> possibleExt]

\* exit: why the process exits with code 1, or "" and [dir, basename, ext]
getDestination(a) ==
  LET rawPath == trim(joinWith(a, << " " >>))
      possibleDir == pathDirname(rawPath)
      possibleFilename == basename1(rawPath)
      ext0 == toLowerCase(removeFirstDot(pathExtname(rawPath)))
      possibleExt == IF toLowerCase(ext0) \in knownExtensions THEN ext0 ELSE << >>
      possibleBasename ==
        pathBasename(rawPath, IF possibleExt = << >> THEN << >> ELSE << "." >> \o possibleExt)
  IN  IF rawPath = << >>
        THEN [exit |-> "", dir |-> avoidScriptAndHomeDir(currentDir), basename |-> << >>, ext |-> << >>]
      ELSE IF existsSync(rawPath) /\ isDirectory(rawPath)
        THEN [exit |-> "", dir |-> rawPath, basename |-> << >>, ext |-> << >>]
      ELSE IF ~validFilename(possibleFilename)
        THEN [exit |-> "invalid filename", dir |-> << >>, basename |-> << >>, ext |-> << >>]
      ELSE IF ~existsSync(possibleDir)
        THEN [exit |-> "directory does not exist", dir |-> << >>, basename |-> << >>, ext |-> << >>]
      ELSE [exit |-> "", dir |-> avoidScriptAndHomeDir(possibleDir),
            basename |-> possibleBasename, ext |-> possibleExt]

(***************************************************************************)
(* getDefaultFilename                                                      *)
(***************************************************************************)
\* a loop that ends one index earlier
IndexLimitShort == 100 - 1

\* while (index < 100)
IndexLimit == 100

\* the candidate of an index: baseFilename, a space, the padded index
candidateBase(index) == Today \o << " ", "s", "c", "a", "n", " " >> \o pad2(index)

RECURSIVE defaultFilenameFrom(_, _, _)
\* the loop from an index on; ok = FALSE is the thrown Error
defaultFilenameFrom(targetDir, e, index) ==
  IF index < IndexLimit
    THEN LET candidatePath == pathJoin(targetDir, candidateBase(index) \o << "." >> \o e)
         IN  IF ~existsSync(candidatePath)
               THEN [ok |-> TRUE, name |-> candidateBase(index)]
             ELSE defaultFilenameFrom(targetDir, e, index + 1)
  ELSE [ok |-> FALSE, name |-> << >>]

getDefaultFilename(targetDir, e) == defaultFilenameFrom(targetDir, e, 1)

(***************************************************************************)
(* promptForUserFilename: from the output of kdialog to the filename       *)
(***************************************************************************)
\* s.replace(/\s*\.\s*(pdf|jpg|png)\s*$/i, '.' + the extension in lower case)
normalizeKnownExtension(s) ==
  LET dots == {i \in 1..Len(s) : s[i] = "."}
  IN  IF dots = {} THEN s
      ELSE LET d == SetMax(dots)
               found == toLowerCase(trim(sliceFrom(s, d)))
               before == SubSeq(s, 1, d - 1)
               kept == {i \in 1..Len(before) : before[i] \notin WhiteSpace}
               stem == IF kept = {} THEN << >> ELSE SubSeq(before, 1, SetMax(kept))
           IN  IF found \in knownExtensions THEN stem \o << "." >> \o found ELSE s

\* the filename the callback of exec computes from stdout
promptedFilename(output, e) ==
  LET trimmed == trim(output)
      withExt == IF endsWith(toLowerCase(trimmed), << "." >> \o e) THEN trimmed
                 ELSE trimmed \o << "." >> \o e
  IN  trim(normalizeKnownExtension(withExt))

(***************************************************************************)
(* Inputs                                                                  *)
(***************************************************************************)
\* longest argument list of the runs
MaxArgs == 2

\* number of the first default names of which every subset may exist
MaxTaken == 1

t_FAKE == << "F", "A", "K", "E" >>

t_work == workDir

t_workX == << "/", "w", "/", "x", ".", "J", "P", "G" >>

t_bare == << "y", ".", "p", "d", "f" >>

t_nodir == << "/", "q", "/", "x" >>

t_star == << "a", "*" >>

t_dotPdf == << ".", "p", "d", "f" >>

t_7 == << "7" >>

\* the words an argument list is made of
Tokens ==
  {w_close, t_FAKE, w_jpg, w_h, t_work, t_workX, t_bare, t_nodir, t_star, t_dotPdf}

RECURSIVE SeqsUpTo(_, _)
\* the sequences over S of length at most n
SeqsUpTo(S, n) ==
  IF n = 0 THEN {<< >>}
  ELSE LET shorter == SeqsUpTo(S, n - 1)
       IN  shorter \cup {Append(q, x) : q \in {r \in shorter : Len(r) = n - 1}, x \in S}

\* sizes a produced file may have, around the threshold
Sizes == {0, MinSize - 1, MinSize, MinSize + 1}

\* what kdialog may print for a suggested path
kdialogOutputs(suggested, e) ==
  { suggested \o << "\n" >>,
    sliceOff(suggested, Len(e) + 1) \o << "\n" >>,
    << "/", "w", "/", "N", ".", "P", "D", "F", "\n" >>,
    << "/", "w", "/", "a", "*", "\n" >>,
    << "/", "q", "/", "n", "\n" >>,
    << "\n" >> }

\* the directories in which default names may be taken
ScanDirs == {workDir, picturesScan}

\* the files '<date> scan NN.<e>' for the indices in taken
takenFiles(ds, taken, e) ==
  LET paths == {pathJoin(d, candidateBase(n) \o << "." >> \o e) : d \in ds, n \in taken}
  IN  [q \in paths |-> MinSize + 1]

(***************************************************************************)
(* Initial state: the declarations of scanToFile, lines 209-214            *)
(***************************************************************************)
InitProgram ==
  /\ pc = "start"
  /\ exitCode = Running
  /\ openFlag = TRUE
  /\ FAKEMODE = FALSE
  /\ multiPage = FALSE
  /\ numOfPages = 1
  /\ outputFormat = w_pdf
  /\ promptingNeeded = FALSE
  /\ args = argv
  /\ dir = << >>
  /\ basename = << >>
  /\ ext = << >>
  /\ filePath = << >>
  /\ scanState = "idle"
  /\ promptState = "idle"
  /\ finalFilePath = << >>
  /\ stdout = << >>
  /\ log = << >>

\* the root directory, as resolvePath gives it
rootDir == << >>

BaseDirs == {rootDir, homeDir, scriptDir, workDir}

PictureDirs == {pathDirname(picturesScan), picturesScan}

Init ==
  /\ argv \in SeqsUpTo(Tokens, MaxArgs)
  /\ currentDir \in {homeDir, scriptDir, workDir}
  /\ dirs \in {BaseDirs, BaseDirs \cup PictureDirs}
  /\ \E taken \in SUBSET (1..MaxTaken) : files = takenFiles(ScanDirs, taken, w_pdf)
  /\ files0 = files
  /\ InitProgram

(***************************************************************************)
(* scanToFile, the synchronous part                                        *)
(***************************************************************************)
\* process.exit(code), and the exit of node on an uncaught exception (code 1)
Exit(code, what) ==
  /\ pc' = "done"
  /\ exitCode' = code
  /\ log' = Append(log, what)

\* lines 216-264
Classify ==
  /\ pc = "start"
  /\ IF wantsHelp(argv)
       THEN /\ Exit(0, "help")
            /\ UNCHANGED intent
       ELSE LET st == processMagicWords([openFlag |-> openFlag, FAKEMODE |-> FAKEMODE,
                                         multiPage |-> multiPage, numOfPages |-> numOfPages,
                                         outputFormat |-> outputFormat, args |-> argv])
            IN  /\ openFlag' = st.openFlag
                /\ FAKEMODE' = st.FAKEMODE
                /\ multiPage' = st.multiPage
                /\ numOfPages' = st.numOfPages
                /\ outputFormat' = st.outputFormat
                /\ args' = st.args
                /\ pc' = "classified"
                /\ UNCHANGED << exitCode, log >>
  /\ UNCHANGED << env, files, dest, tasks >>

\* lines 267-276
Resolve ==
  /\ pc = "classified"
  /\ LET d == getDestination(args)
     IN  IF d.exit # ""
           THEN /\ Exit(1, d.exit)
                /\ UNCHANGED << dir, basename, ext >>
         ELSE IF d.ext # << >> /\ outputFormat # w_pdf /\ d.ext # outputFormat
           THEN \* process.exit() without a code
                /\ Exit(0, "format conflict")
                /\ UNCHANGED << dir, basename, ext >>
         ELSE /\ dir' = d.dir
              /\ basename' = trim(d.basename)
              /\ ext' = IF d.ext = << >> THEN outputFormat ELSE d.ext
              /\ pc' = "resolved"
              /\ UNCHANGED << exitCode, log >>
  /\ UNCHANGED << env, files, intent, promptingNeeded, filePath, tasks >>

\* lines 278-290
Name ==
  /\ pc = "resolved"
  /\ LET generated == IF basename = << >> THEN getDefaultFilename(dir, outputFormat)
                      ELSE [ok |-> TRUE, name |-> basename]
         suffix == << "." >> \o outputFormat
         stripped == IF endsWith(toLowerCase(generated.name), suffix)
                       THEN sliceOff(generated.name, Len(suffix))
                     ELSE generated.name
         e == IF basename = << >> THEN outputFormat ELSE ext
     IN  IF ~generated.ok
           THEN /\ Exit(1, "No available filename found")
                /\ UNCHANGED dest
         ELSE /\ basename' = stripped
              /\ ext' = e
              /\ promptingNeeded' = (basename = << >>)
              /\ filePath' = pathJoin(dir, stripped \o << "." >> \o e)
              /\ pc' = "named"
              /\ UNCHANGED << dir, exitCode, log >>
  /\ UNCHANGED << env, files, intent, tasks >>

\* a prompt in every run
promptAlways(needed) == "kdialog"

\* line 305: the state of promptPromise when it is made
promptPromise(needed) == IF needed THEN "kdialog" ELSE "resolved"

\* lines 304-307: both operations are started, neither is awaited
Launch ==
  /\ pc = "named"
  /\ scanState' = IF FAKEMODE THEN "cp" ELSE "rm"
  /\ promptState' = promptPromise(promptingNeeded)
  /\ finalFilePath' = IF promptState' = "kdialog" THEN << >> ELSE filePath
  /\ log' = log \o << "scanAndConvert" >>
                 \o (IF promptState' = "kdialog" THEN << "kdialog" >> ELSE << >>)
  /\ pc' = "launched"
  /\ UNCHANGED << env, files, exitCode, intent, dest, stdout >>

(***************************************************************************)
(* The two operations and their join                                       *)
(***************************************************************************)
\* a join that takes the first completion
promiseRace(prompt, scan) ==
  IF prompt = "rejected" \/ scan = "rejected" THEN "rejected"
  ELSE IF prompt = "resolved" \/ scan = "resolved" THEN "resolved"
  ELSE "pending"

\* a join that waits for both and does not reject
promiseAllSettled(prompt, scan) ==
  IF prompt \in {"resolved", "rejected"} /\ scan \in {"resolved", "rejected"} THEN "resolved"
  ELSE "pending"

\* Promise.all([promptPromise, scanPromise])
promiseAll(prompt, scan) ==
  IF prompt = "rejected" \/ scan = "rejected" THEN "rejected"
  ELSE IF prompt = "resolved" /\ scan = "resolved" THEN "resolved"
  ELSE "pending"

\* the process runs and neither .then nor .catch is due
Pending ==
  /\ pc = "launched"
  /\ exitCode = Running
  /\ promiseAll(promptState, scanState) = "pending"

\* line 87
tempFile ==
  pathJoin(dir, << ".", "s", "c", "a", "n", "-", "j", "s", ".", "t", "e", "m", "p", "." >>
                \o (IF ext = w_pdf THEN w_jpg ELSE ext))

\* lines 112-119, after the temporary file was written with this size
Acquired(size) ==
  LET written == writeFile(files, tempFile, size)
  IN  IF ext = w_pdf
        THEN /\ files' = written
             /\ scanState' = "convert"
      ELSE IF canRename(written, tempFile, filePath)
        THEN /\ files' = renameFile(written, tempFile, filePath)
             /\ scanState' = "resolved"
      ELSE /\ files' = written
           /\ scanState' = "rejected"

\* the log after a step of scanAndConvert: its end is noted
scanLog == IF scanState' = "resolved" THEN Append(log, "scan done") ELSE log

\* line 95: cp of the fixture ends
ScanCopy ==
  /\ Pending
  /\ scanState = "cp"
  /\ \/ /\ canCreate(tempFile)
        /\ \E size \in Sizes : Acquired(size)
     \/ /\ scanState' = "rejected"
        /\ UNCHANGED files
  /\ log' = scanLog
  /\ UNCHANGED << env, pc, exitCode, intent, dest, promptState, finalFilePath, stdout >>

\* line 98: rm -f of the temporary file ends
ScanRemoveOld ==
  /\ Pending
  /\ scanState = "rm"
  /\ \/ /\ files' = removeFile(files, tempFile)
        /\ scanState' = "scanimage"
     \/ /\ scanState' = "rejected"
        /\ UNCHANGED files
  /\ log' = scanLog
  /\ UNCHANGED << env, pc, exitCode, intent, dest, promptState, finalFilePath, stdout >>

\* lines 100-108: scanimage > tempFile ends
ScanImage ==
  /\ Pending
  /\ scanState = "scanimage"
  /\ \/ /\ canCreate(tempFile)
        /\ \E size \in Sizes : Acquired(size)
     \/ /\ scanState' = "rejected"
        /\ files' = IF canCreate(tempFile) THEN writeFile(files, tempFile, 0) ELSE files
  /\ log' = scanLog
  /\ UNCHANGED << env, pc, exitCode, intent, dest, promptState, finalFilePath, stdout >>

\* line 114: convert ends; line 115 starts rm -f
ScanConvert ==
  /\ Pending
  /\ scanState = "convert"
  /\ \/ /\ canCreate(filePath)
        /\ \E size \in Sizes : files' = writeFile(files, filePath, size)
        /\ scanState' = "cleanup"
     \/ /\ scanState' = "rejected"
        /\ UNCHANGED files
  /\ log' = scanLog
  /\ UNCHANGED << env, pc, exitCode, intent, dest, promptState, finalFilePath, stdout >>

\* line 115: rm -f of the temporary file ends
ScanCleanup ==
  /\ Pending
  /\ scanState = "cleanup"
  /\ \/ /\ files' = removeFile(files, tempFile)
        /\ scanState' = "resolved"
     \/ /\ scanState' = "rejected"
        /\ UNCHANGED files
  /\ log' = scanLog
  /\ UNCHANGED << env, pc, exitCode, intent, dest, promptState, finalFilePath, stdout >>

\* lines 50-73: the callback of exec(kdialog); the filename ends with the
\* extension, so it is never empty and resolve(filename || null) gives it
PromptAnswer ==
  /\ Pending
  /\ promptState = "kdialog"
  /\ \/ /\ promptState' = "rejected"
        /\ UNCHANGED << finalFilePath, stdout, pc, exitCode, log >>
     \/ \E out \in kdialogOutputs(filePath, ext) :
          LET filename == promptedFilename(out, ext)
          IN  /\ stdout' = out
              /\ IF ~validFilePath(filename)
                    THEN /\ Exit(1, "invalid prompted filename")
                         /\ UNCHANGED << promptState, finalFilePath >>
                  ELSE /\ promptState' = "resolved"
                       /\ finalFilePath' = filename
                       /\ log' = Append(log, "prompt done")
                       /\ UNCHANGED << pc, exitCode >>
  /\ UNCHANGED << env, files, intent, dest, scanState >>

\* a rename in every run
renameAlways(from, to) == TRUE

\* line 310
renameNeeded(from, to) == from # to

\* a viewer launch in every run
viewerAlways(flag) == << "xdg-open" >>

\* lines 325-327: what is called for the viewer
viewerCalls(flag) == IF flag THEN << "xdg-open" >> ELSE << >>

\* lines 308-328, and .catch for what they throw
Then ==
  /\ pc = "launched"
  /\ exitCode = Running
  /\ promiseAll(promptState, scanState) = "resolved"
  /\ LET differs == renameNeeded(filePath, finalFilePath)
         renamed == IF differs THEN renameFile(files, filePath, finalFilePath) ELSE files
         calls == IF differs THEN << "renameSync" >> ELSE << >>
     IN  IF differs /\ ~canRename(files, filePath, finalFilePath)
           THEN /\ pc' = "done"
                /\ exitCode' = 1
                /\ log' = log \o << "renameSync", "rename failed" >>
                /\ UNCHANGED files
         ELSE /\ files' = renamed
              /\ pc' = "done"
              /\ IF ~existsIn(renamed, finalFilePath)
                   THEN /\ exitCode' = 1
                        /\ log' = log \o calls \o << "does not exist" >>
                 ELSE IF statSize(renamed, finalFilePath) < MinSize
                   THEN /\ exitCode' = 1
                        /\ log' = log \o calls \o << "smaller than 10KB" >>
                 ELSE /\ exitCode' = 0
                      /\ log' = log \o calls \o << "verified" >>
                                \o viewerCalls(openFlag)
  /\ UNCHANGED << env, intent, dest, tasks >>

\* lines 329-332 for a rejected operation
Catch ==
  /\ pc = "launched"
  /\ exitCode = Running
  /\ promiseAll(promptState, scanState) = "rejected"
  /\ Exit(1, "An error occurred")
  /\ UNCHANGED << env, files, intent, dest, tasks >>

\* the exit codes xdg-open may end with
ViewerOutcomes == {0, 1}

\* line 326: xdg-open ends; exec was given no callback, its outcome is dropped
ViewerExit ==
  /\ pc = "done"
  /\ Len(log) > 0
  /\ log[Len(log)] = "xdg-open"
  /\ \E outcome \in ViewerOutcomes :
       log' = Append(log, IF outcome = 0 THEN "viewer ended" ELSE "viewer failed")
  /\ UNCHANGED << env, files, pc, exitCode, intent, dest, tasks >>

Next ==
  \/ Classify
  \/ Resolve
  \/ Name
  \/ Launch
  \/ ScanCopy
  \/ ScanRemoveOld
  \/ ScanImage
  \/ ScanConvert
  \/ ScanCleanup
  \/ PromptAnswer
  \/ Then
  \/ Catch
  \/ ViewerExit

Spec == Init /\ [][Next]_vars

TypeOK ==
  /\ pc \in {"start", "classified", "resolved", "named", "launched", "done"}
  /\ exitCode \in {Running, 0, 1}
  /\ scanState \in {"idle", "cp", "rm", "scanimage", "convert", "cleanup", "resolved", "rejected"}
  /\ promptState \in {"idle", "kdialog", "resolved", "rejected"}

(***************************************************************************)
(* Further runs: many argument lists, many directory snapshots             *)
(***************************************************************************)
\* longest argument list of the runs of SpecArgs
MaxMagicArgs == 3

\* the indices after the first free one that may be taken, in SpecNames
MaxGap == 1

\* the last index of a default name: NN in 01..99
LastIndex == 99

t_1234 == << "1", "2", "3", "4" >>

t_Png == << "P", "n", "g" >>

ArgTokens == {w_close, t_FAKE, w_all, w_jpg, t_Png, t_7, t_1234, t_work}

InitArgs ==
  /\ argv \in SeqsUpTo(ArgTokens, MaxMagicArgs)
  /\ currentDir = workDir
  /\ dirs = BaseDirs \cup PictureDirs
  /\ files = << >>
  /\ files0 = files
  /\ InitProgram

SpecArgs == InitArgs /\ [][Next]_vars

InitNames ==
  /\ argv \in {<< >>, << t_FAKE, w_jpg >>}
  /\ currentDir = workDir
  /\ dirs = BaseDirs \cup PictureDirs
  /\ \E k \in 0..LastIndex :
       \E more \in SUBSET ((k + 2)..(k + 1 + MaxGap)) :
         files = takenFiles({workDir}, (1..k) \cup more, w_pdf)
  /\ files0 = files
  /\ InitProgram

SpecNames == InitNames /\ [][Next]_vars

(***************************************************************************)
(* Properties                                                              *)
(***************************************************************************)
Happened(what) == \E i \in 1..Len(log) : log[i] = what

\* both were logged, a before b
Before(a, b) ==
  \E i \in 1..Len(log) : \E j \in (i + 1)..Len(log) : log[i] = a /\ log[j] = b

\* what .then logs: the rename, the verification and its outcome, the viewer
PostJoinSteps == {"renameSync", "does not exist", "smaller than 10KB", "verified", "xdg-open"}

PostJoinBegun == \E i \in 1..Len(log) : log[i] \in PostJoinSteps

Launched == Happened("scanAndConvert")

\* the magic words have been processed
Classified == pc # "start" /\ ~Happened("help")

\* getDestination has been called
Resolved == Classified /\ pc # "classified"

\* the path that remains after the magic words
residualPath == trim(joinWith(args, << " " >>))

\* no filename was given: nothing remains, or an existing directory
NoExplicitFilename == residualPath = << >> \/ isDirectory(residualPath)

\* C1: the rename, the verification and the viewer launch begin only when
\* both the capture and the naming operation have completed successfully.
C1_JoinWaitsForBoth ==
  PostJoinBegun => scanState = "resolved" /\ promptState = "resolved"

\* the naming completed first, the capture later, and the join followed
C1_Witness ==
  /\ Before("prompt done", "scan done")
  /\ Before("scan done", "verified")

\* C2: kdialog is called only when no filename was given, and in every run
\* that launches with no filename given; with a filename the naming operation
\* is resolved at once with the full path; the capture is started before
\* kdialog and does not wait for its answer.
C2_PromptIffNoFilename ==
  /\ Happened("kdialog") => pc # "start" /\ NoExplicitFilename /\ promptingNeeded
  /\ Launched /\ NoExplicitFilename => Happened("kdialog")
  /\ Launched /\ ~NoExplicitFilename =>
       ~Happened("kdialog") /\ promptState = "resolved" /\ finalFilePath = filePath
       /\ stdout = << >>
  /\ Happened("kdialog") => Before("scanAndConvert", "kdialog")
  /\ promptState = "kdialog" => scanState # "idle"

\* the capture has ended while kdialog still waits for the user
C2_Witness == promptState = "kdialog" /\ scanState = "resolved"

\* what the log holds after a failed validation, capture, naming or check
Failures ==
  {"invalid filename", "directory does not exist", "format conflict",
   "invalid prompted filename", "No available filename found",
   "An error occurred", "rename failed", "does not exist", "smaller than 10KB"}

\* C3: every exit code is 0 or 1; every failure gives 1; 0 is given only
\* for help and for a verified artifact.
C3_ExitCodes ==
  /\ exitCode \in {Running, 0, 1}
  /\ (\E i \in 1..Len(log) : log[i] \in Failures) => exitCode = 1
  /\ exitCode = 0 => Happened("help") \/ Happened("verified")

\* the filename on the command line fails validFilename
BadFilenameGiven ==
  ~NoExplicitFilename /\ ~validFilename(basename1(residualPath))

\* the directory on the command line does not exist
MissingDirGiven ==
  ~NoExplicitFilename /\ ~existsIn(files0, pathDirname(residualPath))

\* kdialog has answered with a name that fails validFilePath
BadNamePrompted ==
  stdout # << >> /\ ~validFilePath(promptedFilename(stdout, ext))

\* C4 as claimed: every failed validation, that of the prompted name
\* included, exits with a nonzero code before the capture is started.
C4_ValidationBeforeCapture ==
  /\ Resolved /\ (BadFilenameGiven \/ MissingDirGiven)
       => exitCode = 1 /\ ~Launched
  /\ BadNamePrompted => exitCode = 1 /\ ~Launched

\* C4 as amended: a bad filename or a missing directory on the command line
\* exits with code 1 before the capture is started; a bad prompted name
\* exits with code 1 too, but after the capture was started.
C4_CommandLineValidationBeforeCapture ==
  /\ Resolved /\ (BadFilenameGiven \/ MissingDirGiven)
       => pc = "done" /\ exitCode = 1 /\ ~Launched
  /\ BadNamePrompted =>
       /\ pc = "done" /\ exitCode = 1 /\ promptState = "kdialog"
       /\ Before("scanAndConvert", "kdialog")
       /\ ~PostJoinBegun

\* a bad filename on the command line has ended the run
C4_Witness ==
  pc = "done" /\ BadFilenameGiven /\ Happened("invalid filename")

\* .then has run up to the verification: the join was reached, no rename threw
Joined ==
  /\ pc = "done"
  /\ scanState = "resolved"
  /\ promptState = "resolved"
  /\ ~Happened("rename failed")

Threshold == 10240

\* the artifact is at the final path
ArtifactExists == isFile(files, finalFilePath)

ArtifactSize == statSize(files, finalFilePath)

\* C6 as claimed: exit code 0 after a capture only with an artifact of more
\* than 10240 bytes; a missing artifact or one of at most 10240 bytes is fatal.
C6_SizeAboveThreshold ==
  /\ Launched /\ exitCode = 0 => ArtifactExists /\ ArtifactSize > Threshold
  /\ Joined /\ (~ArtifactExists \/ ArtifactSize <= Threshold) => exitCode = 1

\* C6 as amended: exit code 0 after a capture only with an artifact of at
\* least 10240 bytes; a missing artifact or one below 10240 bytes is fatal.
C6_SizeAtLeastThreshold ==
  /\ Launched /\ exitCode = 0 => ArtifactExists /\ ArtifactSize >= Threshold
  /\ Joined /\ (~ArtifactExists \/ ArtifactSize < Threshold) => exitCode = 1

\* an artifact of exactly 10240 bytes was accepted
C6_Witness ==
  Joined /\ exitCode = 0 /\ ArtifactExists /\ ArtifactSize = Threshold

\* the run made the file at p
CreatedAt(p) == p # << >> /\ isFile(files, p) /\ ~isFile(files0, p)

\* C7 as claimed: at exit there is one verified artifact at the final path,
\* or the run has made no file at the capture target or the final path.
C7_AllOrNothing ==
  pc = "done" =>
    \/ /\ exitCode = 0
       /\ Happened("verified")
       /\ ArtifactExists
    \/ ~CreatedAt(filePath) /\ ~CreatedAt(finalFilePath)

\* C7 as amended: after exit code 0 of a run that launched the capture the
\* verified artifact is at the final path and neither the temporary file nor
\* a file at another capture target is left; a run that ends before the
\* launch has made no file.  (A fatal end after the launch may leave files.)
C7_ValidatedOnSuccess ==
  /\ Launched /\ exitCode = 0 =>
       /\ Happened("verified")
       /\ ArtifactExists
       /\ ArtifactSize >= Threshold
       /\ ~isFile(files, tempFile)
       /\ finalFilePath # filePath => ~isFile(files, filePath)
  /\ ~Launched => files = files0

\* a run with a rename has ended with exit code 0
C7_Witness == exitCode = 0 /\ Happened("renameSync") /\ ext = w_pdf

\* C8: after a failed capture or a failed naming, no post-join step is taken
\* and the only thing the run does is exit with code 1, whatever the other
\* operation has done.
C8_FailureAborts ==
  /\ scanState = "rejected" \/ promptState = "rejected" =>
       /\ ~PostJoinBegun
       /\ exitCode # 0
       /\ pc = "done" => exitCode = 1
       /\ exitCode = Running => ENABLED Catch /\ ~ENABLED Then
  /\ BadNamePrompted => ~PostJoinBegun /\ exitCode = 1

\* the naming was resolved by kdialog, then the capture failed
C8_Witness ==
  /\ scanState = "rejected"
  /\ promptState = "resolved"
  /\ Happened("prompt done")
  /\ exitCode = 1

\* a token that the loop consumes: a magic word or one to three digits
isMagicToken(t) == toLowerCase(t) \in magicWords \/ isPageCount(toLowerCase(t))

\* the length of the longest leading run of such tokens
magicPrefix(a) ==
  SetMax({k \in 0..Len(a) : \A i \in 1..k : isMagicToken(a[i])})

\* the positions of the prefix whose token, in lower case, is in ws
prefixPositions(a, ws) == {i \in 1..magicPrefix(a) : toLowerCase(a[i]) \in ws}

\* the positions of the prefix that set the page count
pagePositions(a) ==
  {i \in 1..magicPrefix(a) : toLowerCase(a[i]) = w_all \/ isPageCount(toLowerCase(a[i]))}

\* C9: the consumed tokens are the longest leading run of magic tokens, the
\* rest is args in its order, and the options depend on that run alone.
C9_PrefixClassification ==
  Classified =>
    /\ args = SubSeq(argv, magicPrefix(argv) + 1, Len(argv))
    /\ openFlag = (prefixPositions(argv, {w_close}) = {})
    /\ FAKEMODE = (prefixPositions(argv, {w_fake}) # {})
    /\ outputFormat = IF prefixPositions(argv, {w_jpg, w_png}) = {} THEN w_pdf
                      ELSE toLowerCase(argv[SetMax(prefixPositions(argv, {w_jpg, w_png}))])
    /\ multiPage = (pagePositions(argv) # {})
    /\ numOfPages = IF pagePositions(argv) = {} THEN 1
                    ELSE LET last == toLowerCase(argv[SetMax(pagePositions(argv))])
                         IN  IF last = w_all THEN 0 ELSE parseInt(last)

\* a magic word stands after the first other token and was not consumed
C9_Witness ==
  /\ Classified
  /\ 0 < magicPrefix(argv)
  /\ \E i \in 2..Len(args) : isMagicToken(args[i])

\* the indices whose default name was free when the process started
FreeIndices ==
  {i \in 1..LastIndex :
     ~isFile(files0, pathJoin(dir, candidateBase(i) \o << "." >> \o outputFormat))}

\* getDefaultFilename has just been called
NameGenerated ==
  /\ Resolved
  /\ NoExplicitFilename
  /\ pc = "named" \/ (pc = "done" /\ ~Launched)

\* C10: the default name is that of the smallest free index in 1..99 and its
\* file does not exist; with all 99 taken the run ends with exit code 1 and
\* no name.
C10_DefaultName ==
  NameGenerated =>
    IF FreeIndices = {}
      THEN /\ pc = "done"
           /\ exitCode = 1
           /\ Happened("No available filename found")
           /\ ~Launched
    ELSE /\ promptingNeeded
         /\ basename = candidateBase(SetMin(FreeIndices))
         /\ filePath = pathJoin(dir, basename \o << "." >> \o outputFormat)
         /\ ~isFile(files0, filePath)

\* all 99 names were taken
C10_Witness ==
  NameGenerated /\ FreeIndices = {} /\ exitCode = 1

\* getDestination has returned a destination
DirResolved == pc \in {"resolved", "named", "launched"} \/ Launched

\* no folder was given: nothing remains, or a name without a directory part
NoFolderGiven ==
  \/ residualPath = << >>
  \/ /\ \A i \in 1..Len(residualPath) : residualPath[i] # "/"
     /\ ~isDirectory(residualPath)

\* the script's location and the home directory
DangerousDirs == {scriptDir, homeDir}

\* the files the capture operation has created: those of this run, as long
\* as the artifact was not renamed to a path the user chose in the prompt
CapturedFiles ==
  IF Happened("renameSync") THEN {} ELSE DOMAIN files \ DOMAIN files0

\* C11: when no folder is given (nothing remains, or a bare filename) and
\* the current directory is the script's location or the home directory, the
\* resolved target directory is home/Pictures/scan and no file is created in
\* the home directory or the script directory.
C11_NoFolderGoesToPictures ==
  (Classified /\ NoFolderGiven /\ currentDir \in DangerousDirs) =>
    /\ DirResolved => resolvePath(dir, currentDir) = picturesScan
    /\ \A q \in CapturedFiles : pathDirname(q) \notin DangerousDirs

\* the part of C11 the code keeps: nothing remains after the magic words
C11_EmptyPathGoesToPictures ==
  (Classified /\ residualPath = << >> /\ currentDir \in DangerousDirs) =>
    /\ DirResolved => dir = picturesScan
    /\ \A q \in CapturedFiles : pathDirname(q) \notin DangerousDirs

\* C12: the capture operation is started only with a target directory that
\* exists; when the resolved directory (also one obtained by the substitution
\* of home/Pictures/scan) does not exist, the run fails before any capture.
C12_TargetDirExists ==
  /\ Launched => isDirectory(dir)
  /\ (pc = "named" /\ ~isDirectory(dir)) => ~ENABLED Launch

\* the part of C12 the code keeps: a directory given on the command line
\* exists when the capture is started
C12_GivenDirExists ==
  (Launched /\ residualPath # << >>) =>
    isDirectory(IF isDirectory(residualPath) THEN residualPath
                ELSE pathDirname(residualPath))

(***************************************************************************)
(* validFilename on its own: every short string as possibleFilename        *)
(***************************************************************************)
\* longest string tested
MaxLen == 4

\* a name character, the two delimiters and a white space that is no space
PlainChars == {"a", ".", " ", "\t"}

\* the strings with one of the excluded characters at position i
withBadChar(s, i) ==
  {SubSeq(s, 1, i - 1) \o << c >> \o SubSeq(s, i, Len(s)) : c \in BadChars}

\* the strings over PlainChars, and those with one excluded character in them
Filenames ==
  LET plain == SeqsUpTo(PlainChars, MaxLen)
      shorter == {s \in plain : Len(s) < MaxLen}
  IN  plain \cup UNION {withBadChar(s[1], s[2]) :
                        s \in {<< t, i >> \in shorter \X (1..MaxLen) : i <= Len(t) + 1}}

InitFilenames ==
  /\ argv \in {<< s >> : s \in Filenames}
  /\ currentDir = workDir
  /\ dirs = BaseDirs
  /\ files = << >>
  /\ files0 = files
  /\ InitProgram

\* lines 167-170 with the argument as possibleFilename
TestFilename ==
  /\ pc = "start"
  /\ IF ~validFilename(argv[1])
       THEN /\ Exit(1, "invalid filename")
            /\ UNCHANGED basename
     ELSE /\ basename' = argv[1]
          /\ pc' = "tested"
          /\ UNCHANGED << exitCode, log >>
  /\ UNCHANGED << env, files, intent, dir, ext, promptingNeeded, filePath, tasks >>

SpecFilenames == InitFilenames /\ [][TestFilename]_vars

\* the string that was tested, and the outcome of the test
possibleFilename == argv[1]

Tested == pc # "start"

Accepted == pc = "tested"

Rejected == Happened("invalid filename") /\ exitCode = 1

Delimiters == {" ", "."}

hasBadChar(s) == \E i \in 1..Len(s) : s[i] \in BadChars

hasDoubledDelimiter(s) ==
  \E i \in 1..(Len(s) - 1) : s[i] \in Delimiters /\ s[i + 1] \in Delimiters

hasDoubleSpace(s) == \E i \in 1..(Len(s) - 1) : s[i] = " " /\ s[i + 1] = " "

hasOuterWhiteSpace(s) ==
  Len(s) > 0 /\ (s[1] \in WhiteSpace \/ s[Len(s)] \in WhiteSpace)

\* runs of characters that are neither excluded nor white space nor dots,
\* separated by single spaces or single dots
singleDelimited(s) ==
  /\ Len(s) > 0
  /\ \A i \in 1..Len(s) : s[i] \in Delimiters \/ (NameChar(s[i]) /\ s[i] # ".")
  /\ s[1] \notin Delimiters
  /\ s[Len(s)] \notin Delimiters
  /\ ~hasDoubledDelimiter(s)

\* what validFilename accepts, said without the expression: name characters
\* and spaces, no space first; up to the first space dots stand anywhere;
\* from the first space on every space and every dot is followed by a name
\* character that is no dot
filenameGrammar(s) ==
  LET spaces == {i \in 1..Len(s) : s[i] = " "}
      from == IF spaces = {} THEN Len(s) + 1 ELSE SetMin(spaces)
  IN  /\ Len(s) > 0
      /\ \A i \in 1..Len(s) : s[i] = " " \/ (s[i] \notin BadChars /\ s[i] \notin WhiteSpace)
      /\ from > 1
      /\ \A i \in from..Len(s) :
           s[i] \in Delimiters =>
             (i < Len(s) /\ s[i + 1] \notin Delimiters)

\* C13 as claimed: the validator rejects every string with an excluded
\* character, every string with two consecutive delimiters (space or dot)
\* and every string with leading or trailing white space; it accepts every
\* string of runs separated by single spaces or single dots.
C13_RejectsDoubledDelimiters ==
  Tested =>
    /\ hasBadChar(possibleFilename) => Rejected
    /\ hasDoubledDelimiter(possibleFilename) => Rejected
    /\ hasOuterWhiteSpace(possibleFilename) => Rejected
    /\ singleDelimited(possibleFilename) => Accepted

\* C13: the validator rejects every string with an excluded character, with
\* white space other than single spaces between name characters, or with a
\* dot after the first space that is not followed by a name character; it
\* accepts the strings of filenameGrammar and no others, among them every
\* string of runs separated by single spaces or single dots.  Dots before
\* the first space may be doubled, leading or trailing.
C13_FilenameGrammar ==
  Tested =>
    /\ Accepted \/ Rejected
    /\ Accepted <=> filenameGrammar(possibleFilename)
    /\ hasBadChar(possibleFilename) => Rejected
    /\ hasDoubleSpace(possibleFilename) => Rejected
    /\ hasOuterWhiteSpace(possibleFilename) => Rejected
    /\ (\E i \in 1..Len(possibleFilename) : possibleFilename[i] \in WhiteSpace \ {" "}) => Rejected
    /\ singleDelimited(possibleFilename) => Accepted

\* a name with a double dot was accepted
C13_Witness ==
  /\ Accepted
  /\ basename = << "a", ".", ".", "a" >>
  /\ hasDoubledDelimiter(possibleFilename)

\* the file name of the capture target has been computed
NameSettled == pc \in {"named", "launched"} \/ Launched

\* the filename given on the command line, and its extension as typed
givenFilename == basename1(residualPath)

givenExt == removeFirstDot(pathExtname(residualPath))

\* the file name C14 asks for
expectedFileName ==
  IF toLowerCase(givenExt) \in knownExtensions
    THEN sliceOff(givenFilename, Len(givenExt) + 1) \o << "." >> \o toLowerCase(givenExt)
  ELSE givenFilename \o << "." >> \o outputFormat

\* C14: for an explicit filename with a known extension in any letter case
\* the capture target's file name is the name without that extension, a dot
\* and the lower-cased extension, once; a filename with another suffix is
\* kept whole and gets a dot and the requested format.
C14_SingleLowerCaseExtension ==
  (NameSettled /\ ~NoExplicitFilename) => basename1(filePath) = expectedFileName

\* the part of C14 the code keeps: the extension was typed in lower case, or
\* it is the requested format, or the suffix is no known extension (and the
\* name is more than a dot and the requested format)
C14_LowerCaseGiven ==
  (NameSettled /\ ~NoExplicitFilename
     /\ (givenExt \in knownExtensions \/ toLowerCase(givenExt) \notin knownExtensions
           \/ toLowerCase(givenExt) = outputFormat)
     /\ givenFilename # << "." >> \o outputFormat) =>
    basename1(filePath) = expectedFileName

\* the base name getDestination returns for the residual path (line 269)
resolvedBasename == trim(getDestination(args).basename)

\* that base name without a trailing dot and requested format (lines 284-287)
strippedBasename ==
  IF endsWith(toLowerCase(resolvedBasename), << "." >> \o outputFormat)
    THEN sliceOff(resolvedBasename, Len(outputFormat) + 1)
  ELSE resolvedBasename

\* the base name is one of the default names
isDefaultName(b) == \E n \in 1..LastIndex : b = candidateBase(n)

\* C15: the target path is built from a non-empty base name; whenever the
\* base name is empty after resolution and extension stripping, the default
\* name generator has filled it and prompting is marked as needed before the
\* path is computed.
C15_BaseNameNonEmpty ==
  NameSettled =>
    /\ basename # << >>
    /\ basename1(filePath) = basename \o << "." >> \o ext
    /\ strippedBasename = << >> => (isDefaultName(basename) /\ promptingNeeded)

\* the part of C15 the code keeps: a base name that is empty after
\* resolution is filled by the default name generator
C15_DefaultNameFillsEmpty ==
  (NameSettled /\ resolvedBasename = << >>) =>
    /\ isDefaultName(basename)
    /\ promptingNeeded
    /\ basename1(filePath) = basename \o << "." >> \o ext

\* the number of viewer launches
viewerLaunches == Cardinality({i \in 1..Len(log) : log[i] = "xdg-open"})

\* a close token is among the leading magic tokens
closeClassified == prefixPositions(argv, {w_close}) # {}

\* C16: the viewer is launched at most once, only without a classified close
\* token and only after the final artifact passed the verification, which
\* follows any rename; its outcome does not change the exit code, and a run
\* with close or with a fatal error never launches it.
C16_ViewerAfterVerification ==
  /\ viewerLaunches <= 1
  /\ Happened("xdg-open") =>
       /\ ~closeClassified
       /\ Before("verified", "xdg-open")
       /\ Happened("renameSync") => Before("renameSync", "verified")
       /\ ArtifactExists /\ ArtifactSize >= Threshold
       /\ exitCode = 0
  /\ (\E i \in 1..Len(log) : log[i] \in Failures) => ~Happened("xdg-open")
  /\ Happened("verified") /\ closeClassified => ~Happened("xdg-open")
  /\ Happened("verified") /\ ~Happened("xdg-open") => ~ENABLED ViewerExit

\* the viewer was launched after a rename and the verification, and failed
C16_Witness ==
  /\ Before("renameSync", "verified")
  /\ Before("xdg-open", "viewer failed")
  /\ exitCode = 0

\* a run with close was verified and ended without the viewer
C16_WitnessClose ==
  /\ closeClassified
  /\ Happened("verified")
  /\ exitCode = 0

====
